---- MODULE Spec2Model ----
(***************************************************************************)
(* Session and credential lifecycle of the Flask server (server/app.py)    *)
(* on top of the InstagramLoader wrapper (instaloader/instaloader_api.py). *)
(*                                                                         *)
(* One action per HTTP endpoint; an action is the whole handler.  The      *)
(* Instaloader library, browser_cookie3 and the remote service are the     *)
(* environment: every call into them takes its outcome from a small set    *)
(* (\E), and the handler reacts to it exactly as its try/except does.      *)
(* Python values are strings; None is the token below.                     *)
(***************************************************************************)
EXTENDS Integers, Sequences, FiniteSets, TLC

VARIABLES
    bc3_library,  \* instaloader_api.py:26-31, whether browser_cookie3 imported
    ctx,          \* loader.loader.context: the one live context of the process
    store,        \* the files sessions/<username>.session
    req,          \* the request being answered (endpoint and JSON fields)
    env,          \* what the environment answered to the calls of this request
    calls,        \* the library calls made while handling this request, in order
    log,          \* what the handler chain printed while handling this request
    resp,         \* what the transport layer got back from the view function
    flight        \* a /download_profile request that another thread is handling

vars == <<bc3_library, ctx, store, req, env, calls, log, resp, flight>>

----------------------------------------------------------------------------
\* Bounds of the model.
NumUsers == 2
NumProfiles == 1

\* Python values.
None == "<None>"
EmptyStr == ""
NA == "n/a"                \* a call that was not made has no outcome

AllNames == <<"alice", "bob", "carol", "dave">>
Usernames == {AllNames[i] : i \in 1..NumUsers}
AllProfiles == <<"bob_pics", "ghost", "third">>
ProfileNames == {AllProfiles[i] : i \in 1..NumProfiles}

\* Values a JSON field can take: absent (data.get gives None), "", or a text.
UsernameField == {None, EmptyStr} \cup Usernames
PasswordField == {None, "correct", "wrong"}
BrowserField == {None, "chrome", "netscape"}
CookiefileField == {None, "cookies.sqlite"}
ProfileField == {None} \cup ProfileNames
HashtagField == {None, "cats"}

\* Python truthiness of a str-or-None value: `not x`.
Falsy(x) == x \in {None, EmptyStr}

----------------------------------------------------------------------------
\* The live context held by Instaloader (self.loader.context).
AnonymousCookies == <<"anonymous", None>>
LoginCookies(u) == <<"login", u>>
BrowserCookies(who) == <<"browser", who>>

FreshContext == [username |-> None, cookies |-> AnonymousCookies, closed |-> FALSE]

\* Session files.  A file holds the snapshot of a context.
NoSession == [kind |-> "absent"]
Snapshot(c) == [kind |-> "session", username |-> c.username, cookies |-> c.cookies]
SessionOf(u) == Snapshot([username |-> u, cookies |-> LoginCookies(u), closed |-> FALSE])

get_session_file(username) == username

os_path_exists(st, session_file) == st[session_file] # NoSession

----------------------------------------------------------------------------
\* Outcomes of the library calls.  "ok" is a normal return, any other value
\* is the class of the exception the call raises.
CaughtByLogin ==
    {"BadCredentialsException", "TwoFactorAuthRequiredException", "LoginException"}
LoginOutcomes == {"ok"} \cup CaughtByLogin \cup {"ConnectionException"}

\* The remote service accepts only the right password; with the right one the
\* attempt can still end in a second-factor demand or a connection error.
AuthPossible(password, auth) == (auth = "ok") => (password = "correct")

InstaloaderExceptions == {"ProfileNotExistsException", "ConnectionException"}
ResolveOutcomes == {"ok"} \cup InstaloaderExceptions \cup {"KeyError"}
RetrieveOutcomes == {"ok", "ConnectionException", "OSError"}

ExtractOutcomes == {"cookies", "NoInstagramCookies", "BrowserCookieError"}
\* Whom the service recognises behind a browser's cookies (None: nobody).
ProbeOutcomes == Usernames \cup {None}

\* An outcome is drawn only for a call the request can lead to: without both
\* credentials there is no authentication, without a readable browser
\* profile no extraction, without cookies no probe, without a resolved
\* profile no retrieval.
AuthChoices(username, password) ==
    IF Falsy(username) \/ Falsy(password) THEN {NA}
    ELSE {a \in LoginOutcomes : AuthPossible(password, a)}
ExtractChoices(lib, username, browser) ==
    IF ~lib \/ Falsy(username) \/ Falsy(browser) THEN {NA} ELSE ExtractOutcomes
ProbeChoices(extract) == IF extract = "cookies" THEN ProbeOutcomes ELSE {NA}
ResolveChoices(name) == IF Falsy(name) THEN {NA} ELSE ResolveOutcomes
RetrieveChoices(name, resolve) ==
    IF Falsy(name) \/ resolve # "ok" THEN {NA} ELSE RetrieveOutcomes

NoEnv == [auth |-> NA, extract |-> NA, probe |-> NA, resolve |-> NA, retrieve |-> NA]

----------------------------------------------------------------------------
\* class InstagramLoader: the attributes an instance has.
InstagramLoaderMethods ==
    {"login", "load_session_from_browser", "_get_cookies_from_browser",
     "download_profile", "download_hashtag", "download_stories", "close"}

\* loader.load_session_from_file(username, session_file), called on the wrapper.
\* Looking up an attribute the instance lacks raises AttributeError before
\* anything is called.
load_session_from_file(st, c, username, session_file) ==
    IF "load_session_from_file" \notin InstagramLoaderMethods
    THEN [exc |-> "AttributeError", ctx |-> c, calls |-> <<>>]
    ELSE [exc |-> None,
          ctx |-> [username |-> username, cookies |-> st[session_file].cookies,
                   closed |-> FALSE],
          calls |-> <<"Instaloader.load_session_from_file">>]

\* save_session_to_file forwarded to the wrapped Instaloader: the live context
\* is written to the path the handler built.
save_session_to_file_forwarded(st, c, session_file) ==
    [exc |-> None, store |-> [st EXCEPT ![session_file] = Snapshot(c)],
     calls |-> <<"Instaloader.save_session_to_file">>]

\* loader.save_session_to_file(session_file), called on the wrapper.
save_session_to_file(st, c, session_file) ==
    IF "save_session_to_file" \notin InstagramLoaderMethods
    THEN [exc |-> "AttributeError", store |-> st, calls |-> <<>>]
    ELSE [exc |-> None, store |-> [st EXCEPT ![session_file] = Snapshot(c)],
          calls |-> <<"Instaloader.save_session_to_file">>]

\* InstagramLoader.login: True on success, False on the three caught classes,
\* any other exception leaves the method.
Loader_login(c, username, password, auth) ==
    IF auth = "ok"
    THEN [ret |-> TRUE, exc |-> None, log |-> <<>>,
          ctx |-> [username |-> username, cookies |-> LoginCookies(username),
                   closed |-> FALSE]]
    ELSE IF auth \in CaughtByLogin
    THEN [ret |-> FALSE, exc |-> None, log |-> <<<<"Login failed", auth>>>>, ctx |-> c]
    ELSE [ret |-> FALSE, exc |-> auth, log |-> <<>>, ctx |-> c]

supported_browsers ==
    {"brave", "chrome", "chromium", "edge", "firefox", "librewolf", "opera",
     "opera_gx", "safari", "vivaldi"}

\* _get_cookies_from_browser without its allow-list test: any browser name is
\* handed to the cookie library.
get_cookies_from_browser_unchecked(browser, cookiefile, extract, who) ==
    IF extract = "BrowserCookieError"
    THEN [exc |-> "BrowserCookieError", cookies |-> None,
          calls |-> <<"browser_cookie3">>]
    ELSE IF extract = "NoInstagramCookies"
    THEN [exc |-> "No Instagram cookies found", cookies |-> None,
          calls |-> <<"browser_cookie3">>]
    ELSE [exc |-> None, cookies |-> BrowserCookies(who),
          calls |-> <<"browser_cookie3">>]

\* InstagramLoader._get_cookies_from_browser: the cookies, or the exception.
get_cookies_from_browser(browser, cookiefile, extract, who) ==
    IF browser \notin supported_browsers
    THEN [exc |-> "Unsupported browser", cookies |-> None, calls |-> <<>>]
    ELSE IF extract = "BrowserCookieError"
    THEN [exc |-> "BrowserCookieError", cookies |-> None,
          calls |-> <<"browser_cookie3">>]
    ELSE IF extract = "NoInstagramCookies"
    THEN [exc |-> "No Instagram cookies found", cookies |-> None,
          calls |-> <<"browser_cookie3">>]
    ELSE [exc |-> None, cookies |-> BrowserCookies(who),
          calls |-> <<"browser_cookie3">>]

\* InstagramLoader.load_session_from_browser.
Loader_load_session_from_browser(c, lib, browser, cookiefile, extract, who) ==
    IF ~lib
    THEN [ret |-> FALSE, ctx |-> c, calls |-> <<>>,
          log |-> <<<<"browser_cookie3 library is required">>>>]
    ELSE LET g == get_cookies_from_browser(browser, cookiefile, extract, who)
             updated == [c EXCEPT !.cookies = g.cookies]
         IN  IF g.exc # None
             THEN [ret |-> FALSE, ctx |-> c, calls |-> g.calls,
                   log |-> <<<<"Failed to load cookies", g.exc>>>>]
             ELSE IF ~Falsy(who)
             THEN [ret |-> TRUE, ctx |-> [updated EXCEPT !.username = who],
                   calls |-> g.calls \o <<"update_cookies", "test_login">>,
                   log |-> <<<<"Logged in as", who>>>>]
             ELSE [ret |-> FALSE, ctx |-> updated,
                   calls |-> g.calls \o <<"update_cookies", "test_login">>,
                   log |-> <<<<"Failed to log in using cookies">>>>]

\* InstagramLoader.download_profile.
Loader_download_profile(profile_name, resolve, retrieve) ==
    IF resolve = "ProfileNotExistsException"
    THEN [ret |-> FALSE, exc |-> None, calls |-> <<"Profile.from_username">>,
          log |-> <<<<"Profile not found">>>>]
    ELSE IF resolve \in InstaloaderExceptions
    THEN [ret |-> FALSE, exc |-> None, calls |-> <<"Profile.from_username">>,
          log |-> <<<<"Failed to download profile", resolve>>>>]
    ELSE IF resolve # "ok"
    THEN [ret |-> FALSE, exc |-> resolve, calls |-> <<"Profile.from_username">>,
          log |-> <<>>]
    ELSE IF retrieve = "ok"
    THEN [ret |-> TRUE, exc |-> None, log |-> <<>>,
          calls |-> <<"Profile.from_username", "Instaloader.download_profile">>]
    ELSE IF retrieve \in InstaloaderExceptions
    THEN [ret |-> FALSE, exc |-> None,
          calls |-> <<"Profile.from_username", "Instaloader.download_profile">>,
          log |-> <<<<"Failed to download profile", retrieve>>>>]
    ELSE [ret |-> FALSE, exc |-> retrieve, log |-> <<>>,
          calls |-> <<"Profile.from_username", "Instaloader.download_profile">>]

\* download_hashtag that tries a second time when the retrieval raised.
Loader_download_hashtag_retry(hashtag, retrieve) ==
    IF retrieve = "ok"
    THEN [ret |-> TRUE, exc |-> None, log |-> <<>>,
          calls |-> <<"Instaloader.download_hashtag">>]
    ELSE IF retrieve \in InstaloaderExceptions
    THEN [ret |-> FALSE, exc |-> None,
          calls |-> <<"Instaloader.download_hashtag", "Instaloader.download_hashtag">>,
          log |-> <<<<"Failed to download hashtag", retrieve>>>>]
    ELSE [ret |-> FALSE, exc |-> retrieve, log |-> <<>>,
          calls |-> <<"Instaloader.download_hashtag">>]

\* InstagramLoader.download_hashtag.
Loader_download_hashtag(hashtag, retrieve) ==
    IF retrieve = "ok"
    THEN [ret |-> TRUE, exc |-> None, log |-> <<>>,
          calls |-> <<"Instaloader.download_hashtag">>]
    ELSE IF retrieve \in InstaloaderExceptions
    THEN [ret |-> FALSE, exc |-> None, calls |-> <<"Instaloader.download_hashtag">>,
          log |-> <<<<"Failed to download hashtag", retrieve>>>>]
    ELSE [ret |-> FALSE, exc |-> retrieve, log |-> <<>>,
          calls |-> <<"Instaloader.download_hashtag">>]

\* InstagramLoader.download_stories.
Loader_download_stories(profile_name, resolve, retrieve) ==
    IF resolve \in InstaloaderExceptions
    THEN [ret |-> FALSE, exc |-> None, calls |-> <<"Profile.from_username">>,
          log |-> <<<<"Failed to download stories", resolve>>>>]
    ELSE IF resolve # "ok"
    THEN [ret |-> FALSE, exc |-> resolve, calls |-> <<"Profile.from_username">>,
          log |-> <<>>]
    ELSE IF retrieve = "ok"
    THEN [ret |-> TRUE, exc |-> None, log |-> <<>>,
          calls |-> <<"Profile.from_username", "Instaloader.download_stories">>]
    ELSE IF retrieve \in InstaloaderExceptions
    THEN [ret |-> FALSE, exc |-> None,
          calls |-> <<"Profile.from_username", "Instaloader.download_stories">>,
          log |-> <<<<"Failed to download stories", retrieve>>>>]
    ELSE [ret |-> FALSE, exc |-> retrieve, log |-> <<>>,
          calls |-> <<"Profile.from_username", "Instaloader.download_stories">>]

\* InstagramLoader.close: Instaloader.close() releases the HTTP session of the
\* context; the context object, its username and its cookies stay.
Loader_close(c) == [c EXCEPT !.closed = TRUE]

----------------------------------------------------------------------------
\* The view functions of server/app.py.  Each yields what the transport layer
\* receives and the state the handler leaves behind.

\* jsonify({"status": ..., "message": ...}), code
Response(endpoint, code, status, message) ==
    [endpoint |-> endpoint, code |-> code, status |-> status, message |-> message]

\* An exception that leaves the view function: Flask answers 500 with its own
\* error page (the debugger's traceback under app.run(debug=True)), not with
\* the handler's JSON body.
Unhandled(endpoint, exc) ==
    [endpoint |-> endpoint, code |-> 500, status |-> "exception", message |-> exc]

\* The check written with `and`: a request lacking one of its two fields passes.
MissingFields_and(a, b) == Falsy(a) /\ Falsy(b)

\* `if not a or not b`
MissingFields(a, b) == Falsy(a) \/ Falsy(b)

Outcome(r, c, st, cl, lg, e) ==
    [resp |-> r, ctx |-> c, store |-> st, calls |-> cl, log |-> lg, env |-> e]

\* app.login
login_view(c, st, username, password, auth) ==
    IF MissingFields(username, password)
    THEN Outcome(Response("login", 400, "failed", "Username and password are required."),
                 c, st, <<>>, <<>>, NoEnv)
    ELSE
    LET session_file == get_session_file(username)
        exists == os_path_exists(st, session_file)
        ld == load_session_from_file(st, c, username, session_file)
        lg == Loader_login(c, username, password, auth)
        preCalls == IF exists THEN ld.calls ELSE <<>>
        preLog == IF exists THEN <<<<"Failed to load session", ld.exc>>>> ELSE <<>>
        sv == save_session_to_file(st, lg.ctx, session_file)
        e == [NoEnv EXCEPT !.auth = auth]
        cl == preCalls \o <<"Instaloader.login">>
    IN  IF exists /\ ld.exc = None
        THEN Outcome(Response("login", 200, "success", "Logged in using existing session."),
                     ld.ctx, st, ld.calls, <<>>, NoEnv)
        ELSE IF lg.exc # None
        THEN Outcome(Unhandled("login", lg.exc), lg.ctx, st, cl, preLog \o lg.log, e)
        ELSE IF ~lg.ret
        THEN Outcome(Response("login", 401, "failed", "Login failed. Check your credentials."),
                     lg.ctx, st, cl, preLog \o lg.log, e)
        ELSE IF sv.exc # None
        THEN Outcome(Unhandled("login", sv.exc), lg.ctx, sv.store, cl \o sv.calls,
                     preLog \o lg.log, e)
        ELSE Outcome(Response("login", 200, "success", "Logged in successfully."),
                     lg.ctx, sv.store, cl \o sv.calls, preLog \o lg.log, e)

\* app.reattempt_login
reattempt_login_view(c, st, username, password, auth) ==
    IF MissingFields(username, password)
    THEN Outcome(Response("reattempt_login", 400, "failed",
                          "Username and password are required."),
                 c, st, <<>>, <<>>, NoEnv)
    ELSE
    LET lg == Loader_login(c, username, password, auth)
        sv == save_session_to_file(st, lg.ctx, get_session_file(username))
        e == [NoEnv EXCEPT !.auth = auth]
        cl == <<"Instaloader.login">>
    IN  IF lg.exc # None
        THEN Outcome(Unhandled("reattempt_login", lg.exc), lg.ctx, st, cl, lg.log, e)
        ELSE IF ~lg.ret
        THEN Outcome(Response("reattempt_login", 401, "failed",
                              "Re-login failed. Check your credentials."),
                     lg.ctx, st, cl, lg.log, e)
        ELSE IF sv.exc # None
        THEN Outcome(Unhandled("reattempt_login", sv.exc), lg.ctx, sv.store,
                     cl \o sv.calls, lg.log, e)
        ELSE Outcome(Response("reattempt_login", 200, "success", "Re-login successful."),
                     lg.ctx, sv.store, cl \o sv.calls, lg.log, e)

\* app.load_session_from_browser
load_session_from_browser_view(c, st, lib, username, browser, cookiefile, extract, who) ==
    IF MissingFields(username, browser)
    THEN Outcome(Response("load_session_from_browser", 400, "failed",
                          "Username and browser name are required."),
                 c, st, <<>>, <<>>, NoEnv)
    ELSE
    LET lb == Loader_load_session_from_browser(c, lib, browser, cookiefile, extract, who)
        sv == save_session_to_file(st, lb.ctx, get_session_file(username))
        extracted == \E i \in 1..Len(lb.calls) : lb.calls[i] = "browser_cookie3"
        probed == \E i \in 1..Len(lb.calls) : lb.calls[i] = "test_login"
        e == [NoEnv EXCEPT !.extract = IF extracted THEN extract ELSE NA,
                           !.probe = IF probed THEN who ELSE NA]
    IN  IF ~lb.ret
        THEN Outcome(Response("load_session_from_browser", 400, "failed",
                              "Failed to load session from browser."),
                     lb.ctx, st, lb.calls, lb.log, e)
        ELSE IF sv.exc # None
        THEN Outcome(Unhandled("load_session_from_browser", sv.exc), lb.ctx, sv.store,
                     lb.calls \o sv.calls, lb.log, e)
        ELSE Outcome(Response("load_session_from_browser", 200, "success",
                              "Session loaded from browser."),
                     lb.ctx, sv.store, lb.calls \o sv.calls, lb.log, e)

\* The download tail run on a loader built anew for the request: the live
\* context is replaced by an anonymous one.
DownloadOutcome_newloader(endpoint, c, st, d, e) ==
    IF d.exc # None
    THEN Outcome(Unhandled(endpoint, d.exc), FreshContext, st, d.calls, d.log, e)
    ELSE IF d.ret
    THEN Outcome(Response(endpoint, 200, "success", "Downloaded."), FreshContext, st,
                 d.calls, d.log, e)
    ELSE Outcome(Response(endpoint, 400, "failed", "Failed to download."),
                 FreshContext, st, d.calls, d.log, e)

\* The tail shared by the three download views: the wrapper's boolean decides
\* between 200 and 400, an exception that left the wrapper leaves the view.
DownloadOutcome(endpoint, c, st, d, e) ==
    IF d.exc # None
    THEN Outcome(Unhandled(endpoint, d.exc), c, st, d.calls, d.log, e)
    ELSE IF d.ret
    THEN Outcome(Response(endpoint, 200, "success", "Downloaded."), c, st, d.calls, d.log, e)
    ELSE Outcome(Response(endpoint, 400, "failed", "Failed to download."),
                 c, st, d.calls, d.log, e)

Retrieved(d) == Len(d.calls) = 2

\* app.download_profile
download_profile_view(c, st, profile_name, resolve, retrieve) ==
    IF Falsy(profile_name)
    THEN Outcome(Response("download_profile", 400, "failed", "Profile name is required."),
                 c, st, <<>>, <<>>, NoEnv)
    ELSE LET d == Loader_download_profile(profile_name, resolve, retrieve)
         IN  DownloadOutcome("download_profile", c, st, d,
                 [NoEnv EXCEPT !.resolve = resolve,
                               !.retrieve = IF Retrieved(d) THEN retrieve ELSE NA])

\* app.download_hashtag
download_hashtag_view(c, st, hashtag, retrieve) ==
    IF Falsy(hashtag)
    THEN Outcome(Response("download_hashtag", 400, "failed", "Hashtag is required."),
                 c, st, <<>>, <<>>, NoEnv)
    ELSE DownloadOutcome("download_hashtag", c, st,
                         Loader_download_hashtag(hashtag, retrieve),
                         [NoEnv EXCEPT !.retrieve = retrieve])

\* app.download_stories
download_stories_view(c, st, profile_name, resolve, retrieve) ==
    IF Falsy(profile_name)
    THEN Outcome(Response("download_stories", 400, "failed", "Profile name is required."),
                 c, st, <<>>, <<>>, NoEnv)
    ELSE LET d == Loader_download_stories(profile_name, resolve, retrieve)
         IN  DownloadOutcome("download_stories", c, st, d,
                 [NoEnv EXCEPT !.resolve = resolve,
                               !.retrieve = IF Retrieved(d) THEN retrieve ELSE NA])

\* close that fails on a loader that is already closed.
close_view_once(c, st) ==
    IF c.closed
    THEN Outcome(Unhandled("close", "RuntimeError"), c, st, <<"Instaloader.close">>,
                 <<>>, NoEnv)
    ELSE Outcome(Response("close", 200, "success", "Loader closed successfully."),
                 Loader_close(c), st, <<"Instaloader.close">>, <<>>, NoEnv)

\* close that also removes the session files as part of its clean-up.
close_view_cleanup(c, st) ==
    Outcome(Response("close", 200, "success", "Loader closed successfully."),
            Loader_close(c), [f \in DOMAIN st |-> NoSession],
            <<"Instaloader.close">>, <<>>, NoEnv)

\* app.close
close_view(c, st) ==
    Outcome(Response("close", 200, "success", "Loader closed successfully."),
            Loader_close(c), st, <<"Instaloader.close">>, <<>>, NoEnv)

----------------------------------------------------------------------------
NoFields ==
    [username |-> NA, password |-> NA, browser |-> NA, cookiefile |-> NA,
     profile_name |-> NA, hashtag |-> NA]

Request(endpoint, fields) == [endpoint |-> endpoint, fields |-> fields]

\* The handler's outcome becomes the next state.
Apply(rq, o) ==
    /\ req' = rq
    /\ resp' = o.resp
    /\ ctx' = o.ctx
    /\ store' = o.store
    /\ calls' = o.calls
    /\ log' = o.log
    /\ env' = o.env

\* No download is between its two library calls.
NoFlight ==
    [pc |-> "idle", profile_name |-> NA, resolvedUnder |-> NA, retrievedUnder |-> NA]

\* The session directory outlives the process (app.py:10 creates it only when
\* missing and nothing clears it), so the process starts with whatever files
\* earlier runs left in it.  Whether browser_cookie3 imports is fixed at start.
Init ==
    /\ bc3_library \in BOOLEAN
    /\ ctx = FreshContext
    /\ \E present \in SUBSET Usernames :
           store = [u \in Usernames |-> IF u \in present THEN SessionOf(u) ELSE NoSession]
    /\ req = Request("none", NoFields)
    /\ env = NoEnv
    /\ calls = <<>>
    /\ log = <<>>
    /\ resp = Response("none", 0, "none", "")
    /\ flight = NoFlight

login ==
    \E username \in UsernameField, password \in PasswordField :
      \E auth \in AuthChoices(username, password) :
        /\ Apply(Request("login", [NoFields EXCEPT !.username = username,
                                                   !.password = password]),
                 login_view(ctx, store, username, password, auth))
        /\ UNCHANGED <<bc3_library, flight>>

reattempt_login ==
    \E username \in UsernameField, password \in PasswordField :
      \E auth \in AuthChoices(username, password) :
        /\ Apply(Request("reattempt_login", [NoFields EXCEPT !.username = username,
                                                             !.password = password]),
                 reattempt_login_view(ctx, store, username, password, auth))
        /\ UNCHANGED <<bc3_library, flight>>

load_session_from_browser ==
    \E username \in UsernameField, browser \in BrowserField,
       cookiefile \in CookiefileField :
      \E extract \in ExtractChoices(bc3_library, username, browser) :
        \E who \in ProbeChoices(extract) :
          /\ Apply(Request("load_session_from_browser",
                           [NoFields EXCEPT !.username = username, !.browser = browser,
                                            !.cookiefile = cookiefile]),
                   load_session_from_browser_view(ctx, store, bc3_library, username,
                                                  browser, cookiefile, extract, who))
          /\ UNCHANGED <<bc3_library, flight>>

download_profile ==
    \E profile_name \in ProfileField :
      \E resolve \in ResolveChoices(profile_name) :
        \E retrieve \in RetrieveChoices(profile_name, resolve) :
          /\ Apply(Request("download_profile",
                           [NoFields EXCEPT !.profile_name = profile_name]),
                   download_profile_view(ctx, store, profile_name, resolve, retrieve))
          /\ UNCHANGED <<bc3_library, flight>>

download_hashtag ==
    \E hashtag \in HashtagField :
      \E retrieve \in RetrieveChoices(hashtag, "ok") :
        /\ Apply(Request("download_hashtag", [NoFields EXCEPT !.hashtag = hashtag]),
                 download_hashtag_view(ctx, store, hashtag, retrieve))
        /\ UNCHANGED <<bc3_library, flight>>

download_stories ==
    \E profile_name \in ProfileField :
      \E resolve \in ResolveChoices(profile_name) :
        \E retrieve \in RetrieveChoices(profile_name, resolve) :
          /\ Apply(Request("download_stories",
                           [NoFields EXCEPT !.profile_name = profile_name]),
                   download_stories_view(ctx, store, profile_name, resolve, retrieve))
          /\ UNCHANGED <<bc3_library, flight>>

close ==
    /\ Apply(Request("close", NoFields), close_view(ctx, store))
    /\ UNCHANGED <<bc3_library, flight>>

Next ==
    \/ login
    \/ reattempt_login
    \/ load_session_from_browser
    \/ download_profile
    \/ download_hashtag
    \/ download_stories
    \/ close

Spec == Init /\ [][Next]_vars

----------------------------------------------------------------------------
\* Requests in flight together.  `loader` is one module-level object
\* (app.py:6) that every request thread uses, and neither file takes a lock.
\* InstagramLoader.download_profile reads self.loader.context twice, once for
\* Profile.from_username and once inside Instaloader.download_profile; between
\* the two calls the thread waits on the network and the other handlers run.
\* The download is therefore two steps here, and the identity handlers run
\* between them as they do in Spec.

\* app.download_profile up to the return of Profile.from_username.  A request
\* that ends there (missing field, failed resolution) is answered at once.
download_profile_resolve ==
    /\ flight.pc \in {"idle", "done"}
    /\ \E profile_name \in ProfileField :
         \E resolve \in ResolveChoices(profile_name) :
           IF Falsy(profile_name) \/ resolve # "ok"
           THEN /\ Apply(Request("download_profile",
                                 [NoFields EXCEPT !.profile_name = profile_name]),
                         download_profile_view(ctx, store, profile_name, resolve, NA))
                /\ flight' = NoFlight
           ELSE /\ flight' = [pc |-> "resolved", profile_name |-> profile_name,
                              resolvedUnder |-> ctx.username, retrievedUnder |-> NA]
                /\ UNCHANGED <<ctx, store, req, env, calls, log, resp>>
    /\ UNCHANGED bc3_library

\* The rest of it: Instaloader.download_profile on the context that is live
\* now, then the answer.
download_profile_retrieve ==
    /\ flight.pc = "resolved"
    /\ \E retrieve \in RetrieveOutcomes :
         Apply(Request("download_profile",
                       [NoFields EXCEPT !.profile_name = flight.profile_name]),
               download_profile_view(ctx, store, flight.profile_name, "ok", retrieve))
    /\ flight' = [flight EXCEPT !.pc = "done", !.retrievedUnder = ctx.username]
    /\ UNCHANGED bc3_library

\* A fresh installation: browser_cookie3 present, no session file yet.
InitConc ==
    /\ Init
    /\ bc3_library
    /\ \A u \in Usernames : store[u] = NoSession

NextConc ==
    \/ login
    \/ reattempt_login
    \/ load_session_from_browser
    \/ close
    \/ download_profile_resolve
    \/ download_profile_retrieve

SpecConc == InitConc /\ [][NextConc]_vars

----------------------------------------------------------------------------
\* Properties.  A step of Next is one request: the primed variables describe
\* the request just answered, the unprimed ones the state it arrived in.

Called(cl, name) == \E i \in 1..Len(cl) : cl[i] = name
Count(cl, name) == Cardinality({i \in 1..Len(cl) : cl[i] = name})
Given(x) == x \notin {None, EmptyStr}
DownloadEndpoints == {"download_profile", "download_hashtag", "download_stories"}
LoginEndpoints == {"login", "reattempt_login"}

\* C1: whenever a stored session exists for U, /login with U and a non-empty
\* password answers 200 "success" and makes no password authentication.
C1_SessionReuseShortCircuit ==
    [][ ( /\ req'.endpoint = "login"
          /\ Given(req'.fields.username)
          /\ Given(req'.fields.password)
          /\ store[req'.fields.username] # NoSession )
        => ( /\ resp'.code = 200
             /\ resp'.status = "success"
             /\ ~Called(calls', "Instaloader.login") ) ]_vars

\* C2: /login for a username without stored session, accepted by the service,
\* answers 200 and leaves a stored session of the new context for that
\* username; /login for a username with a stored session installs the context
\* of that session without a password authentication.
C2_LoginPersistsThenReuses ==
    [][ /\ ( /\ req'.endpoint = "login"
             /\ Given(req'.fields.username)
             /\ store[req'.fields.username] = NoSession
             /\ env'.auth = "ok" )
           => ( /\ resp'.code = 200
                /\ store'[req'.fields.username] = Snapshot(ctx') )
        /\ ( /\ req'.endpoint = "login"
             /\ Given(req'.fields.username)
             /\ Given(req'.fields.password)
             /\ store[req'.fields.username] # NoSession )
           => ( /\ ctx'.username = req'.fields.username
                /\ ctx'.cookies = store[req'.fields.username].cookies
                /\ ~Called(calls', "Instaloader.login") ) ]_vars

\* C3: a /login or /reattempt_login request whose password authentication
\* was attempted and did not succeed answers 401 "failed" and leaves the
\* session store as it was.
C3_FailedAuthIs401AndStoreUntouched ==
    [][ ( /\ req'.endpoint \in LoginEndpoints
          /\ Called(calls', "Instaloader.login")
          /\ env'.auth # "ok" )
        => ( /\ resp'.code = 401
             /\ resp'.status = "failed"
             /\ store' = store ) ]_vars

\* C4: a request that lacks a required field (absent or empty) answers 400
\* "failed", makes no library call and changes neither store nor context.
InvalidRequest(r) ==
    \/ /\ r.endpoint \in LoginEndpoints
       /\ ~Given(r.fields.username) \/ ~Given(r.fields.password)
    \/ /\ r.endpoint = "load_session_from_browser"
       /\ ~Given(r.fields.username) \/ ~Given(r.fields.browser)
    \/ /\ r.endpoint \in {"download_profile", "download_stories"}
       /\ ~Given(r.fields.profile_name)
    \/ /\ r.endpoint = "download_hashtag"
       /\ ~Given(r.fields.hashtag)

C4_FailFastOnInvalidRequest ==
    [][ InvalidRequest(req')
        => ( /\ resp'.code = 400
             /\ resp'.status = "failed"
             /\ calls' = <<>>
             /\ store' = store
             /\ ctx' = ctx ) ]_vars

\* A /login without password was refused while a context from an earlier
\* authentication was live and a session file existed.
C4_Witness ==
    /\ req.endpoint = "login"
    /\ req.fields.username \in Usernames
    /\ req.fields.password = None
    /\ resp.code = 400
    /\ calls = <<>>
    /\ ctx.username \in Usernames
    /\ \E u \in Usernames : store[u] # NoSession

\* C5: while no authentication has succeeded since start, a download request
\* fails and reaches neither profile resolution nor retrieval.
C5_DownloadNeedsIdentity ==
    [][ ( /\ req'.endpoint \in DownloadEndpoints
          /\ ~InvalidRequest(req')
          /\ ctx.username = None )
        => ( /\ resp'.code = 400
             /\ resp'.status = "failed"
             /\ calls' = <<>> ) ]_vars

\* C6: every request ends with a JSON body {status, message} and one of the
\* codes 200, 400, 401.
C6_NoExceptionReachesTransport ==
    resp.endpoint # "none"
    => ( /\ resp.code \in {200, 400, 401}
         /\ resp.status \in {"success", "failed"} )

\* C7: a request that does not end in success leaves the live context as it
\* was, and the context changes only in a successful login, re-login, cookie
\* import or close.
C7_FailureLeavesContext ==
    [][ /\ (resp'.code # 200) => (ctx' = ctx)
        /\ (ctx' # ctx)
           => ( /\ resp'.code = 200
                /\ req'.endpoint \in LoginEndpoints
                                     \cup {"load_session_from_browser", "close"} ) ]_vars

\* C8: a cookie import whose probe names V answers 200 and stores the new
\* context under V; when the request named another username U, nothing is
\* written for U.
C8_ImportStoredUnderProbedName ==
    [][ ( /\ req'.endpoint = "load_session_from_browser"
          /\ env'.probe \in Usernames )
        => ( /\ resp'.code = 200
             /\ store'[env'.probe] = Snapshot(ctx')
             /\ (req'.fields.username # env'.probe)
                => (store'[req'.fields.username] = store[req'.fields.username]) ) ]_vars

\* C9 as claimed: a cookie import naming a browser outside the allow-list
\* answers 400 with a failure classified as unsupported browser, extracts no
\* cookies, and changes neither context nor store.
C9_AllowList ==
    {"brave", "chrome", "chromium", "edge", "firefox", "librewolf", "opera",
     "opera_gx", "safari", "vivaldi"}

UnsupportedBrowserRequest(r) ==
    /\ r.endpoint = "load_session_from_browser"
    /\ Given(r.fields.username)
    /\ Given(r.fields.browser)
    /\ r.fields.browser \notin C9_AllowList

UnsupportedBrowserLogged(lg) ==
    lg = << <<"Failed to load cookies", "Unsupported browser">> >>

C10_ReattemptAlwaysAuthenticates ==
    [][ ( /\ req'.endpoint = "reattempt_login"
          /\ ~InvalidRequest(req') )
        => ( /\ Count(calls', "Instaloader.login") = 1
             /\ ~Called(calls', "Instaloader.load_session_from_file")
             /\ (env'.auth = "ok")
                => ( /\ resp'.code = 200
                     /\ store'[req'.fields.username] = Snapshot(ctx') )
             /\ (env'.auth # "ok") => (resp'.code = 401) ) ]_vars

\* C11: /close answers 200 "success" in every state, and a /close that
\* follows a /close leaves context, store and answer as the first left them.
C11_CloseTwiceIsSafe ==
    [][ (req'.endpoint = "close")
        => ( /\ resp'.code = 200
             /\ resp'.status = "success"
             /\ ctx'.closed
             /\ (req.endpoint = "close")
                => (ctx' = ctx /\ store' = store /\ resp' = resp) ) ]_vars

\* /close was answered while the context of an earlier authentication and a
\* session file were there.
C11_Witness ==
    /\ req.endpoint = "close"
    /\ resp.code = 200
    /\ ctx.closed
    /\ ctx.username \in Usernames
    /\ \E u \in Usernames : store[u] # NoSession

\* C12: the identity changes only in a request that authenticated, and a
\* download that directly follows /close fails without reaching the service.
C12_IdentityStateMachine ==
    [][ /\ (ctx'.username # ctx.username)
           => ( \/ env'.auth = "ok"
                \/ env'.probe \in Usernames
                \/ Called(calls', "Instaloader.load_session_from_file") )
        /\ ( /\ req.endpoint = "close"
             /\ req'.endpoint \in DownloadEndpoints
             /\ ~InvalidRequest(req') )
           => ( /\ resp'.code = 400
                /\ resp'.status = "failed"
                /\ calls' = <<>> ) ]_vars

C15_FallThroughOnReuseFailure ==
    [][ ( /\ req'.endpoint = "login"
          /\ ~InvalidRequest(req')
          /\ store[req'.fields.username] # NoSession
          /\ Len(log') > 0
          /\ log'[1][1] = "Failed to load session" )
        => ( /\ Count(calls', "Instaloader.login") = 1
             /\ (env'.auth = "ok")
                => ( /\ resp'.code = 200
                     /\ store'[req'.fields.username] = Snapshot(ctx') )
             /\ (env'.auth # "ok") => (resp'.code = 401) ) ]_vars

C17_ResolutionBeforeRetrieval ==
    [][ ( /\ req'.endpoint \in {"download_profile", "download_stories"}
          /\ ~InvalidRequest(req') )
        => ( /\ Len(calls') >= 1
             /\ calls'[1] = "Profile.from_username"
             /\ (env'.resolve # "ok")
                => ( /\ resp'.code = 400
                     /\ resp'.status = "failed"
                     /\ calls' = <<"Profile.from_username">> )
             /\ (req'.endpoint = "download_stories" /\ env'.resolve = "ok")
                => (calls' = <<"Profile.from_username", "Instaloader.download_stories">>) ) ]_vars

\* C18: a request makes each library call at most once, and a request one of
\* whose calls failed is not answered as a success.
OperationFailed(e) ==
    \/ e.auth \notin {NA, "ok"}
    \/ e.extract \notin {NA, "cookies"}
    \/ e.probe = None
    \/ e.resolve \notin {NA, "ok"}
    \/ e.retrieve \notin {NA, "ok"}

C18_NoRetries ==
    /\ \A i, j \in 1..Len(calls) : (calls[i] = calls[j]) => (i = j)
    /\ OperationFailed(env) => (resp.code # 200 /\ resp.status # "success")

\* A hashtag retrieval failed once and the request was answered 400.
C18_Witness ==
    /\ req.endpoint = "download_hashtag"
    /\ env.retrieve = "ConnectionException"
    /\ calls = <<"Instaloader.download_hashtag">>
    /\ resp.code = 400

\* C19: status is "success" exactly with code 200 and "failed" otherwise; 401
\* comes only from /login and /reattempt_login after a failed password
\* authentication; a failed cookie import or download is a 400.
C19_ResponseConsistency ==
    (resp.endpoint # "none")
    => ( /\ (resp.status = "success") <=> (resp.code = 200)
         /\ (resp.code # 200) => (resp.status = "failed")
         /\ (resp.code = 401)
            => ( /\ resp.endpoint \in LoginEndpoints
                 /\ Called(calls, "Instaloader.login")
                 /\ env.auth # "ok" )
         /\ ( /\ resp.endpoint \in DownloadEndpoints \cup {"load_session_from_browser"}
              /\ resp.code # 200 )
            => (resp.code = 400) )

\* C20: a download request leaves store and live context as they were; they
\* change only in /login, /reattempt_login, /load_session_from_browser, /close.
C20_DownloadsLeaveIdentity ==
    [][ /\ (req'.endpoint \in DownloadEndpoints) => (store' = store /\ ctx' = ctx)
        /\ (store' # store \/ ctx' # ctx)
           => (req'.endpoint \in LoginEndpoints
                                 \cup {"load_session_from_browser", "close"}) ]_vars

\* A profile download succeeded under the context of an earlier authentication.
C20_Witness ==
    /\ req.endpoint = "download_profile"
    /\ resp.code = 200
    /\ calls = <<"Profile.from_username", "Instaloader.download_profile">>
    /\ ctx.username \in Usernames
    /\ \E u \in Usernames : store[u] # NoSession

\* C13 (under SpecConc): while a download is between its two library calls
\* no request changes the live context, and the download retrieves under the
\* identity it resolved the profile under.
C13_DownloadKeepsItsContext ==
    [][ /\ (flight.pc = "resolved") => (ctx' = ctx)
        /\ (flight'.pc = "done")
           => (flight'.retrievedUnder = flight'.resolvedUnder) ]_vars

====
